---- MODULE Spec2Model ----
(***************************************************************************)
(* Model of the reconnecting WebSocket hook of the text-to-SQL client      *)
(* (src/src/hooks/useWebSocket.ts) and of the chart selection of its       *)
(* ResultsVisualizer component (analysisResult); the second part starts at *)
(* the heading "result analysis" below.                                    *)
(* The page that owns the hook (QueryInterface) is modelled under the      *)
(* heading "QueryInterface" and runs with the hook in SpecQuery.           *)
(*                                                                         *)
(* The hook keeps one reference to a socket (ws.current), one reference to *)
(* a timer handle (reconnectTimeoutRef.current) and a retry counter        *)
(* (reconnectAttempts.current).  Every socket created by connect() carries *)
(* its own onopen/onclose/onerror/onmessage closures, which stay attached  *)
(* to that socket after ws.current has been overwritten, and every timer   *)
(* created by setTimeout stays pending until it fires or until             *)
(* clearTimeout is called with its handle.  The model therefore keeps,     *)
(* next to the socket and the timer the refs hold, the sockets and timers  *)
(* the refs held earlier and that can still run a handler.                 *)
(*                                                                         *)
(* One action is one task of the event loop: a handler runs to completion. *)
(* A failed connection delivers `error` and then `close` in one task; the  *)
(* variable `task` holds the socket whose onerror has run and whose        *)
(* onclose runs next, so that nothing interleaves between the two.         *)
(***************************************************************************)
EXTENDS Integers, FiniteSets, Sequences, TLC

\* ---------------------------------------------------------------- bounds
\* Number of sockets that ws.current no longer refers to and that are not
\* yet closed (they still deliver events to the handlers connect() gave
\* them).
MaxReplaced == 1

\* Number of pending timers whose handle reconnectTimeoutRef.current no
\* longer holds (a later setTimeout overwrote it).
MaxOrphans == 1

\* Saturation value of the history counter failedAttempts.
MaxFailed == 5

\* Number of rows of the result sets that are enumerated value by value.
MaxRows == 3

\* Number of HTTP queries in flight at once.
MaxInFlight == 1

\* Number of characters of the longest question typed.
MaxQuestion == 2

\* ------------------------------------------------------ program constants
maxReconnectAttempts == 5

\* close code of a normal closure, the literal compared in onclose and
\* passed by the effect cleanup
NormalClosure == 1000

\* base of the back-off, and its cap, in milliseconds
BaseDelay == 1000
MaxDelay == 30000

\* The close code the browser reports when the connection failed (no
\* Close frame was received).
FailureCodes == {1006}

\* Codes a close event can carry after a closing handshake: the peer's
\* normal closure, "no status received" (what the peer echoes when
\* close() was called without a code), and a lost connection.
CloseCodes == {NormalClosure, 1005} \cup FailureCodes

\* Discriminants of the envelopes the backend sends.
Messages == {"progress", "result", "error"}

VARIABLES
    connectionStatus,     \* useState: Connecting | Connected | Disconnected | Error
    lastMessage,          \* useState: last MessageEvent, "null" before the first
    ws,                   \* ws.current: "null", or the state of the socket it holds
    replaced,             \* sockets ws.current held earlier and that are not
                          \* closed yet: socket state -> how many
    reconnectTimeoutRef,  \* reconnectTimeoutRef.current: "null", "pending" (the
                          \* handle of a pending timer) or "dead" (a handle
                          \* that fired or was cleared)
    timerDelay,           \* delay in ms of the timer the ref holds, 0 if not pending
    orphanTimers,         \* pending timers whose handle was overwritten
    reconnectAttempts,    \* reconnectAttempts.current
    phase,                \* "init" before the effect ran, "mounted", "disposed"
    task,                 \* socket whose onerror ran and whose onclose is
                          \* next: "none", "current" or "replaced"
    lastOp,               \* history: the handler that ran last
    failedAttempts,       \* history: consecutive connection attempts that
                          \* failed since mount, the last open or reconnect()
    disposedWithTimer,    \* history: a reconnect timer was pending when the
                          \* effect cleanup ran
    data,                 \* ResultsVisualizer's prop: [given, rows]
    analysis,             \* the memoised analysisResult, Pending before
                          \* the component rendered
    isExecuting,          \* QueryInterface's useState: a query is running
    httpPending,          \* queryMutation calls that have not settled yet
    query                 \* history: where the question executed last went:
                          \* "none", "channel", "http" or "dropped"

channelVars ==
    <<connectionStatus, lastMessage, ws, replaced, reconnectTimeoutRef,
      timerDelay, orphanTimers, reconnectAttempts, phase, task, lastOp,
      failedAttempts, disposedWithTimer>>

analyzerVars == <<data, analysis>>

queryVars == <<isExecuting, httpPending, query>>

vars == <<channelVars, analyzerVars, queryVars>>

\* No ResultsVisualizer is rendered: no prop, no analysis.
NoData == [given |-> FALSE, rows |-> <<>>]
Pending ==
    [chartType |-> "pending", chartData |-> <<>>,
     numericColumns |-> <<>>, categoricalColumns |-> <<>>]

Min(a, b) == IF a < b THEN a ELSE b

\* ------------------------------------------------------------- sockets
\* States of a WebSocket object.  ABORTING is a socket on which close() was
\* called before the connection was established: its readyState is CLOSING
\* and the browser fails the connection (error, then close with 1006).
LiveStates == {"CONNECTING", "OPEN", "CLOSING", "ABORTING"}

\* A socket that can still deliver events to its handlers.
Live(s) == s \in LiveStates

\* WebSocket.readyState as the hook reads it.
ReadyState(s) == IF s = "ABORTING" THEN "CLOSING" ELSE s

\* WebSocket.close(): no effect on a socket that is closing or closed, and
\* not called at all when ws.current is null.
CloseSocket(s) ==
    CASE s = "OPEN" -> "CLOSING"
      [] s = "CONNECTING" -> "ABORTING"
      [] OTHER -> s

NoSockets == [s \in LiveStates |-> 0]

Count(bag) ==
    bag["CONNECTING"] + bag["OPEN"] + bag["CLOSING"] + bag["ABORTING"]

Put(bag, s) == [bag EXCEPT ![s] = @ + 1]

Take(bag, s) == [bag EXCEPT ![s] = @ - 1]

\* Socket `own` ("current": the one ws.current holds, "replaced": one it
\* held earlier) is in state s.
SocketIn(own, s) == IF own = "current" THEN ws = s ELSE replaced[s] > 0

\* ---------------------------------------------------------------- connect
\* A connect() without its early return.
connectAlways(status, w, repl) ==
    [connectionStatus |-> "Connecting", ws |-> "CONNECTING",
     replaced |-> IF Live(w) THEN Put(repl, w) ELSE repl]

\* connect(): returns early when ws.current is OPEN, otherwise sets the
\* status to Connecting and stores a new WebSocket in ws.current.  The
\* socket ws.current held keeps its handlers; if it is not closed yet it
\* joins the replaced sockets.  The result is the status, ws.current and
\* the replaced sockets after the call.
connect(status, w, repl) ==
    IF ReadyState(w) = "OPEN"
    THEN [connectionStatus |-> status, ws |-> w, replaced |-> repl]
    ELSE [connectionStatus |-> "Connecting", ws |-> "CONNECTING",
          replaced |-> IF Live(w) THEN Put(repl, w) ELSE repl]

\* The model can run connect() when it creates no replaced socket beyond
\* the bound.
CanConnect(w, repl) ==
    ReadyState(w) = "OPEN" \/ ~Live(w) \/ Count(repl) < MaxReplaced

\* ------------------------------------------------------------ back-off
\* A back-off that grows linearly instead of doubling.
DelayLinear(n) == Min(BaseDelay * 2 * n, MaxDelay)

\* Math.min(1000 * Math.pow(2, reconnectAttempts.current), 30000)
Delay(n) == Min(BaseDelay * 2^n, MaxDelay)

\* A retry budget that admits one attempt too many.
ShouldReconnectOffByOne(code, attempts) ==
    code # NormalClosure /\ attempts <= maxReconnectAttempts

\* A retry decision that ignores the close code.
ShouldReconnectAnyCode(code, attempts) == attempts < maxReconnectAttempts

\* the condition under which onclose schedules a reconnect
ShouldReconnect(code, attempts) ==
    code # NormalClosure /\ attempts < maxReconnectAttempts

\* Timers that will still run their callback.
PendingTimers == orphanTimers + (IF reconnectTimeoutRef = "pending" THEN 1 ELSE 0)

\* clearTimeout(reconnectTimeoutRef.current) behind its truthiness test:
\* the ref keeps the handle, which is dead afterwards.
ClearedRef(ref) == IF ref = "null" THEN "null" ELSE "dead"

\* ------------------------------------------------------------ messages
\* A slot that keeps the first message it received.
keepFirstMessage(prev, event) == IF prev = "null" THEN event ELSE prev

\* setLastMessage(event): the slot holds the event just received.
setLastMessage(prev, event) == event

\* sendMessage's test: ws.current?.readyState === WebSocket.OPEN
CanSend(w) == ReadyState(w) = "OPEN"

\* ------------------------------------------------------------------ Init
InitChannel ==
    /\ connectionStatus = "Disconnected"
    /\ lastMessage = "null"
    /\ ws = "null"
    /\ replaced = NoSockets
    /\ reconnectTimeoutRef = "null"
    /\ timerDelay = 0
    /\ orphanTimers = 0
    /\ reconnectAttempts = 0
    /\ phase = "init"
    /\ task = "none"
    /\ lastOp = [op |-> "init", own |-> "none", code |-> 0,
                msg |-> "null"]
    /\ failedAttempts = 0
    /\ disposedWithTimer = FALSE

\* QueryInterface's state before the first question.
InitQuery ==
    /\ isExecuting = FALSE
    /\ httpPending = 0
    /\ query = "none"

Init ==
    /\ InitChannel
    /\ data = NoData
    /\ analysis = Pending
    /\ InitQuery

\* --------------------------------------------------------------- actions
\* useEffect body: connect() on mount.
Mount ==
    /\ phase = "init"
    /\ LET r == connect(connectionStatus, ws, replaced)
       IN /\ connectionStatus' = r.connectionStatus
          /\ ws' = r.ws
          /\ replaced' = r.replaced
    /\ phase' = "mounted"
    /\ lastOp' = [op |-> "mount", own |-> "none", code |-> 0,
                msg |-> "null"]
    /\ UNCHANGED <<lastMessage, reconnectTimeoutRef, timerDelay, orphanTimers,
                   reconnectAttempts, task, failedAttempts,
                   disposedWithTimer>>
    /\ UNCHANGED <<analyzerVars, queryVars>>

\* onopen of a socket.
OnOpen(own) ==
    /\ task = "none"
    /\ SocketIn(own, "CONNECTING")
    /\ IF own = "current"
       THEN ws' = "OPEN" /\ UNCHANGED replaced
       ELSE replaced' = Put(Take(replaced, "CONNECTING"), "OPEN") /\ UNCHANGED ws
    /\ connectionStatus' = "Connected"
    /\ reconnectAttempts' = 0
    /\ failedAttempts' = 0
    /\ lastOp' = [op |-> "open", own |-> own, code |-> 0,
                msg |-> "null"]
    /\ UNCHANGED <<lastMessage, reconnectTimeoutRef, timerDelay, orphanTimers,
                   phase, task,
                   disposedWithTimer>>
    /\ UNCHANGED <<analyzerVars, queryVars>>

\* onmessage of a socket (the browser delivers messages only while OPEN).
Deliver(own, m) ==
    /\ task = "none"
    /\ SocketIn(own, "OPEN")
    /\ lastMessage' = setLastMessage(lastMessage, m)
    /\ lastOp' = [op |-> "message", own |-> own, code |-> 0,
                msg |-> m]
    /\ UNCHANGED <<connectionStatus, ws, replaced, reconnectTimeoutRef,
                   timerDelay, orphanTimers, reconnectAttempts, phase, task,
                   failedAttempts,
                   disposedWithTimer>>
    /\ UNCHANGED analyzerVars

\* The hook used alone: no component consumes lastMessage.
OnMessage(own, m) == Deliver(own, m) /\ UNCHANGED queryVars

\* The peer starts the closing handshake of a socket: readyState becomes
\* CLOSING; no handler of the hook runs.
PeerClosing(own) ==
    /\ task = "none"
    /\ SocketIn(own, "OPEN")
    /\ IF own = "current"
       THEN ws' = "CLOSING" /\ UNCHANGED replaced
       ELSE replaced' = Put(Take(replaced, "OPEN"), "CLOSING") /\ UNCHANGED ws
    /\ lastOp' = [op |-> "peerClosing", own |-> own, code |-> 0,
                msg |-> "null"]
    /\ UNCHANGED <<connectionStatus, lastMessage, reconnectTimeoutRef,
                   timerDelay, orphanTimers, reconnectAttempts, phase, task,
                   failedAttempts,
                   disposedWithTimer>>
    /\ UNCHANGED <<analyzerVars, queryVars>>

\* onerror of a socket in state s: the connection failed.  readyState is
\* already CLOSED when the handler runs, and onclose (code 1006) follows in
\* the same task.
OnError(own, s) ==
    /\ task = "none"
    /\ SocketIn(own, s)
    /\ IF own = "current"
       THEN ws' = "CLOSED" /\ UNCHANGED replaced
       ELSE replaced' = Take(replaced, s) /\ UNCHANGED ws
    /\ connectionStatus' = "Error"
    /\ task' = own
    /\ failedAttempts' = IF s \in {"CONNECTING", "ABORTING"}
                         THEN Min(failedAttempts + 1, MaxFailed)
                         ELSE failedAttempts
    /\ lastOp' = [op |-> "error", own |-> own, code |-> 0,
                msg |-> "null"]
    /\ UNCHANGED <<lastMessage, reconnectTimeoutRef, timerDelay, orphanTimers,
                   reconnectAttempts, phase,
                   disposedWithTimer>>
    /\ UNCHANGED <<analyzerVars, queryVars>>

\* onclose of a socket with event.code = code: after a closing handshake
\* (any of CloseCodes), or right after onerror (1006).
OnClose(own, code) ==
    /\ \/ task = own /\ code \in FailureCodes
       \/ task = "none" /\ SocketIn(own, "CLOSING") /\ code \in CloseCodes
    /\ IF task = own
       THEN UNCHANGED <<ws, replaced>>
       ELSE IF own = "current"
            THEN ws' = "CLOSED" /\ UNCHANGED replaced
            ELSE replaced' = Take(replaced, "CLOSING") /\ UNCHANGED ws
    /\ connectionStatus' = "Disconnected"
    /\ IF ShouldReconnect(code, reconnectAttempts)
       THEN /\ reconnectTimeoutRef = "pending" => orphanTimers < MaxOrphans
            /\ orphanTimers' = IF reconnectTimeoutRef = "pending"
                               THEN orphanTimers + 1 ELSE orphanTimers
            /\ reconnectTimeoutRef' = "pending"
            /\ timerDelay' = Delay(reconnectAttempts)
       ELSE UNCHANGED <<reconnectTimeoutRef, timerDelay, orphanTimers>>
    /\ task' = "none"
    /\ lastOp' = [op |-> "close", own |-> own, code |-> code,
                msg |-> "null"]
    /\ UNCHANGED <<lastMessage, reconnectAttempts, phase, failedAttempts,
                   disposedWithTimer>>
    /\ UNCHANGED <<analyzerVars, queryVars>>

\* The callback of a pending timer (the one the ref holds, or an orphan):
\* reconnectAttempts.current += 1; connect().
TimerFire(own) ==
    /\ task = "none"
    /\ CanConnect(ws, replaced)
    /\ IF own = "ref"
       THEN /\ reconnectTimeoutRef = "pending"
            /\ reconnectTimeoutRef' = "dead"
            /\ timerDelay' = 0
            /\ UNCHANGED orphanTimers
       ELSE /\ orphanTimers > 0
            /\ orphanTimers' = orphanTimers - 1
            /\ UNCHANGED <<reconnectTimeoutRef, timerDelay>>
    /\ reconnectAttempts' = reconnectAttempts + 1
    /\ LET r == connect(connectionStatus, ws, replaced)
       IN /\ connectionStatus' = r.connectionStatus
          /\ ws' = r.ws
          /\ replaced' = r.replaced
    /\ lastOp' = [op |-> "timer", own |-> own, code |-> 0,
                msg |-> "null"]
    /\ UNCHANGED <<lastMessage, phase, task, failedAttempts,
                   disposedWithTimer>>
    /\ UNCHANGED <<analyzerVars, queryVars>>

\* reconnect(): clearTimeout(ref), counter := 0, ws.current.close(), connect().
Reconnect ==
    /\ task = "none"
    /\ phase = "mounted"
    /\ CanConnect(CloseSocket(ws), replaced)
    /\ reconnectTimeoutRef' = ClearedRef(reconnectTimeoutRef)
    /\ timerDelay' = 0
    /\ reconnectAttempts' = 0
    /\ LET r == connect(connectionStatus, CloseSocket(ws), replaced)
       IN /\ connectionStatus' = r.connectionStatus
          /\ ws' = r.ws
          /\ replaced' = r.replaced
    /\ failedAttempts' = 0
    /\ lastOp' = [op |-> "reconnect", own |-> "none", code |-> 0,
                msg |-> "null"]
    /\ UNCHANGED <<lastMessage, orphanTimers, phase, task,
                   disposedWithTimer>>
    /\ UNCHANGED <<analyzerVars, queryVars>>

\* sendMessage(message): ws.current.send(JSON.stringify(message)) when
\* ws.current is OPEN, a console warning otherwise.  lastOp.own records
\* whether the frame was handed to the socket ("current") or dropped
\* ("none"); no state of the hook changes.
SendMessage ==
    /\ task = "none"
    /\ phase = "mounted"
    /\ lastOp' = [op |-> "send",
                own |-> IF CanSend(ws) THEN "current" ELSE "none",
                code |-> 0, msg |-> "null"]
    /\ UNCHANGED <<connectionStatus, lastMessage, ws, replaced,
                   reconnectTimeoutRef, timerDelay, orphanTimers,
                   reconnectAttempts, phase, task, failedAttempts,
                   disposedWithTimer>>
    /\ UNCHANGED <<analyzerVars, queryVars>>

\* effect cleanup on unmount: clearTimeout(ref), ws.current.close(1000, ...).
Dispose ==
    /\ task = "none"
    /\ phase = "mounted"
    /\ reconnectTimeoutRef' = ClearedRef(reconnectTimeoutRef)
    /\ timerDelay' = 0
    /\ ws' = CloseSocket(ws)
    /\ phase' = "disposed"
    /\ disposedWithTimer' = (PendingTimers > 0)
    /\ lastOp' = [op |-> "dispose", own |-> "none", code |-> 0,
                msg |-> "null"]
    /\ UNCHANGED <<connectionStatus, lastMessage, replaced, orphanTimers,
                   reconnectAttempts, task, failedAttempts>>
    /\ UNCHANGED <<analyzerVars, queryVars>>

Owners == {"current", "replaced"}

Next ==
    \/ Mount
    \/ \E own \in Owners : OnOpen(own)
    \/ \E own \in Owners, m \in Messages : OnMessage(own, m)
    \/ \E own \in Owners : PeerClosing(own)
    \/ \E own \in Owners, s \in LiveStates : OnError(own, s)
    \/ \E own \in Owners, code \in CloseCodes : OnClose(own, code)
    \/ \E own \in {"ref", "orphan"} : TimerFire(own)
    \/ Reconnect
    \/ SendMessage
    \/ Dispose

Spec == Init /\ [][Next]_vars

\* ----------------------------------------------------------------- types
TypeOK ==
    /\ connectionStatus \in {"Connecting", "Connected", "Disconnected", "Error"}
    /\ lastMessage \in Messages \cup {"null"}
    /\ ws \in LiveStates \cup {"null", "CLOSED"}
    /\ replaced \in [LiveStates -> 0..MaxReplaced]
    /\ Count(replaced) <= MaxReplaced
    /\ reconnectTimeoutRef \in {"null", "pending", "dead"}
    /\ timerDelay \in Nat
    /\ (timerDelay > 0) = (reconnectTimeoutRef = "pending")
    /\ orphanTimers \in 0..MaxOrphans
    /\ reconnectAttempts \in Nat
    /\ phase \in {"init", "mounted", "disposed"}
    /\ task \in {"none", "current", "replaced"}
    /\ failedAttempts \in 0..MaxFailed
    /\ disposedWithTimer \in BOOLEAN
    /\ isExecuting \in BOOLEAN
    /\ httpPending \in 0..MaxInFlight
    /\ query \in {"none", "channel", "http", "dropped"}

\* ======================================================= QueryInterface
\* The page that owns the hook: it executes a question over the channel or
\* over HTTP, and leaves the executing state when an answer arrives.

\* Questions typed in the text field: strings of spaces and letters.
Questions == UNION {[1..n -> {" ", "q"}] : n \in 0..MaxQuestion}

\* question.trim(): the string without its leading and trailing spaces.
RECURSIVE TrimStart(_)
TrimStart(q) ==
    IF q # <<>> /\ Head(q) = " " THEN TrimStart(Tail(q)) ELSE q

RECURSIVE TrimEnd(_)
TrimEnd(q) ==
    IF q # <<>> /\ q[Len(q)] = " "
    THEN TrimEnd(SubSeq(q, 1, Len(q) - 1)) ELSE q

Trim(q) == TrimEnd(TrimStart(q))

\* Where handleExecuteQuery sends the request: sendMessage when the status
\* is Connected (sendMessage transmits only on an OPEN socket and drops the
\* message otherwise), queryMutation.mutate otherwise.
PathOf(status, w) ==
    IF status = "Connected"
    THEN IF CanSend(w) THEN "channel" ELSE "dropped"
    ELSE "http"

\* The effect on lastMessage: a result or an error envelope ends the
\* execution, a progress envelope does not.
lastMessageEffect(executing, event) ==
    IF event \in {"result", "error"} THEN FALSE ELSE executing

\* handleExecuteQuery (Execute button, or Ctrl+Enter at any time).  An empty
\* question is rejected with a toast.  lastOp.own records the path:
\* "current" (sent on the socket), "http", or "none" (dropped).
ExecuteQuery(question) ==
    /\ task = "none"
    /\ phase = "mounted"
    /\ IF Trim(question) = <<>>
       THEN /\ lastOp' = [op |-> "rejected", own |-> "none", code |-> 0,
                        msg |-> "null"]
            /\ UNCHANGED queryVars
       ELSE LET path == PathOf(connectionStatus, ws)
            IN /\ path = "http" => httpPending < MaxInFlight
               /\ isExecuting' = TRUE
               /\ query' = path
               /\ httpPending' = IF path = "http" THEN httpPending + 1
                                 ELSE httpPending
               /\ lastOp' = [op |-> "execute",
                           own |-> CASE path = "channel" -> "current"
                                     [] path = "http" -> "http"
                                     [] OTHER -> "none",
                           code |-> 0, msg |-> "null"]
    /\ UNCHANGED <<connectionStatus, lastMessage, ws, replaced,
                   reconnectTimeoutRef, timerDelay, orphanTimers,
                   reconnectAttempts, phase, task, failedAttempts,
                   disposedWithTimer>>
    /\ UNCHANGED analyzerVars

\* handleStopExecution (the button shows Stop while isExecuting).
StopExecution ==
    /\ task = "none"
    /\ phase = "mounted"
    /\ isExecuting
    /\ isExecuting' = FALSE
    /\ lastOp' = [op |-> "stop", own |-> "none", code |-> 0, msg |-> "null"]
    /\ UNCHANGED <<connectionStatus, lastMessage, ws, replaced,
                   reconnectTimeoutRef, timerDelay, orphanTimers,
                   reconnectAttempts, phase, task, failedAttempts,
                   disposedWithTimer, httpPending, query>>
    /\ UNCHANGED analyzerVars

\* queryMutation settles: onSuccess and onError both setIsExecuting(false).
HttpSettled(outcome) ==
    /\ task = "none"
    /\ httpPending > 0
    /\ httpPending' = httpPending - 1
    /\ isExecuting' = FALSE
    /\ lastOp' = [op |-> outcome, own |-> "http", code |-> 0, msg |-> "null"]
    /\ UNCHANGED <<connectionStatus, lastMessage, ws, replaced,
                   reconnectTimeoutRef, timerDelay, orphanTimers,
                   reconnectAttempts, phase, task, failedAttempts,
                   disposedWithTimer, query>>
    /\ UNCHANGED analyzerVars

\* onmessage of a socket, and the page's effect on the new lastMessage
\* (a page that was unmounted has no state to set).
OnEnvelope(own, m) ==
    /\ Deliver(own, m)
    /\ isExecuting' = IF phase = "mounted"
                      THEN lastMessageEffect(isExecuting, lastMessage')
                      ELSE isExecuting
    /\ UNCHANGED <<httpPending, query>>

\* What happens without the user: events of sockets, timers and HTTP.
SystemNext ==
    \/ \E own \in Owners : OnOpen(own)
    \/ \E own \in Owners, m \in Messages : OnEnvelope(own, m)
    \/ \E own \in Owners : PeerClosing(own)
    \/ \E own \in Owners, s \in LiveStates : OnError(own, s)
    \/ \E own \in Owners, code \in CloseCodes : OnClose(own, code)
    \/ \E own \in {"ref", "orphan"} : TimerFire(own)
    \/ \E outcome \in {"httpSuccess", "httpError"} : HttpSettled(outcome)

\* The page never calls the hook's reconnect().
NextQuery ==
    \/ Mount
    \/ SystemNext
    \/ \E question \in Questions : ExecuteQuery(question)
    \/ StopExecution
    \/ Dispose

SpecQuery == Init /\ [][NextQuery]_vars

\* ================================================================ claims
\* The step just taken is the onclose handler, run with a close code other
\* than 1000.
AbnormalCloseStep == lastOp'.op = "close" /\ lastOp'.code # NormalClosure

\* The step just taken is the callback of a reconnect timer.
TimerStep == lastOp'.op = "timer"

\* The close handler scheduled nothing.
NoTimerScheduled == UNCHANGED <<reconnectTimeoutRef, timerDelay, orphanTimers>>

\* ---------------------------------------------------------------- C1
\* C1, as claimed: an abnormal close arriving while the retry counter is
\* below 5 schedules the reconnect after min(1000 * 2^retryCount, 30000) ms,
\* increments the retry counter as part of that scheduling, and the status
\* stays Disconnected until the scheduled attempt fires.
C1_IncrementAtScheduling ==
    [][
        /\ (AbnormalCloseStep /\ reconnectAttempts < maxReconnectAttempts) =>
            /\ reconnectTimeoutRef' = "pending"
            /\ timerDelay' = Min(1000 * 2^reconnectAttempts, 30000)
            /\ reconnectAttempts' = reconnectAttempts + 1
            /\ connectionStatus' = "Disconnected"
        /\ (reconnectTimeoutRef = "pending" /\ connectionStatus = "Disconnected"
              /\ ~(TimerStep /\ lastOp'.own = "ref")) =>
            connectionStatus' = "Disconnected"]_vars

\* C1, amended: an abnormal close arriving while the retry counter is below
\* 5 schedules exactly one new timer, with delay min(1000 * 2^n, 30000) ms
\* for n the value of the retry counter at that moment; the close handler
\* sets the status to Disconnected and leaves the counter unchanged; the
\* counter is incremented by one when a timer fires, before connect().
C1_BackoffDelay ==
    [][
        /\ (AbnormalCloseStep /\ reconnectAttempts < maxReconnectAttempts) =>
            /\ reconnectTimeoutRef' = "pending"
            /\ timerDelay' = Min(1000 * 2^reconnectAttempts, 30000)
            /\ PendingTimers' = PendingTimers + 1
            /\ reconnectAttempts' = reconnectAttempts
            /\ connectionStatus' = "Disconnected"
        /\ TimerStep =>
            /\ reconnectAttempts' = reconnectAttempts + 1
            /\ PendingTimers' = PendingTimers - 1]_vars

\* C1, witness: the third consecutive abnormal close has scheduled its
\* retry 4000 ms ahead.
C1_Witness ==
    /\ lastOp.op = "close" /\ lastOp.code # NormalClosure
    /\ reconnectAttempts = 2
    /\ reconnectTimeoutRef = "pending"
    /\ timerDelay = 4000
    /\ connectionStatus = "Disconnected"

\* ---------------------------------------------------------------- C2
\* Sockets that are connecting or open, whichever ref holds them.
ConnectingOrOpen ==
    (IF ws \in {"CONNECTING", "OPEN"} THEN 1 ELSE 0)
    + replaced["CONNECTING"] + replaced["OPEN"]

\* C2: every abnormal close schedules exactly one reconnect, with a delay
\* inside [1000, 30000] ms, and there are never two reconnect timers
\* pending at the same time.
C2_ExactlyOneTimer ==
    /\ [](PendingTimers <= 1)
    /\ [][AbnormalCloseStep =>
            /\ PendingTimers' = PendingTimers + 1
            /\ timerDelay' \in 1000..30000]_vars

\* ---------------------------------------------------------------- C3
\* C3, as claimed: once 5 consecutive connection attempts have failed, a
\* close schedules no further reconnect and the status is Disconnected; a
\* later reconnect() resets the counter and starts a new attempt.
C3_FiveFailedAttempts ==
    [][
        /\ (lastOp'.op = "close" /\ failedAttempts >= maxReconnectAttempts) =>
            (NoTimerScheduled /\ connectionStatus' = "Disconnected")
        /\ lastOp'.op = "reconnect" =>
            (reconnectAttempts' = 0 /\ ws' = "CONNECTING")]_vars

\* C3, amended: once the retry counter has reached 5 (five retry timers
\* have fired with no successful open and no reconnect() in between), a
\* close schedules no further reconnect and sets the status to
\* Disconnected; a later reconnect() resets the counter to 0 and
\* immediately starts a new connection attempt.
C3_BudgetExhausted ==
    [][
        /\ (lastOp'.op = "close" /\ reconnectAttempts >= maxReconnectAttempts) =>
            (NoTimerScheduled /\ connectionStatus' = "Disconnected")
        /\ lastOp'.op = "reconnect" =>
            /\ reconnectAttempts' = 0
            /\ ws' = "CONNECTING"
            /\ connectionStatus' = "Connecting"
            /\ reconnectTimeoutRef' # "pending"]_vars

\* C3, witness: the connection attempt made by the fifth retry has failed
\* and nothing is scheduled.
C3_Witness ==
    /\ lastOp.op = "close" /\ lastOp.code \in FailureCodes
    /\ reconnectAttempts = maxReconnectAttempts
    /\ failedAttempts >= maxReconnectAttempts
    /\ PendingTimers = 0
    /\ connectionStatus = "Disconnected"

\* ---------------------------------------------------------------- C4
\* C4: when reconnect() returns, no previously scheduled retry can still
\* fire, the retry counter is 0, every connection that was live has been
\* closed, and the only connection attempt in progress is the fresh one.
C4_ReconnectStartsClean ==
    lastOp.op = "reconnect" =>
        /\ PendingTimers = 0
        /\ reconnectAttempts = 0
        /\ ws = "CONNECTING"
        /\ connectionStatus = "Connecting"
        /\ ConnectingOrOpen = 1

\* ---------------------------------------------------------------- C5
\* The step just taken started a connection attempt: reconnect() always
\* does, the effect and the timer callback do unless ws.current is OPEN.
ConnectionAttemptStep ==
    \/ lastOp'.op = "reconnect"
    \/ lastOp'.op \in {"mount", "timer"} /\ ReadyState(ws) # "OPEN"

\* C5: the cleanup run while a reconnect timer is pending cancels the
\* timer and closes the live connection, and no connection attempt is made
\* after that disposal.
C5_NoAttemptAfterDisposal ==
    [][
        /\ lastOp'.op = "dispose" =>
            (reconnectTimeoutRef' # "pending" /\ ws' \notin {"CONNECTING", "OPEN"})
        /\ (phase = "disposed" /\ disposedWithTimer) => ~ConnectionAttemptStep]_vars

\* ---------------------------------------------------------------- C6
\* C6: at most one socket created by the hook is connecting or open.
C6_SingleConnection == ConnectingOrOpen <= 1

\* ---------------------------------------------------------------- C7
\* C7: the status starts Disconnected and changes only along the stated
\* state machine: to Connecting from Disconnected (the effect, a retry
\* timer) or by reconnect(); to Connected only from Connecting; to Error
\* only from Connecting or Connected; to Disconnected on a closure.
C7_StateMachine ==
    /\ (phase = "init" => connectionStatus = "Disconnected")
    /\ [][connectionStatus' # connectionStatus =>
            \/ /\ connectionStatus' = "Connecting"
               /\ \/ lastOp'.op = "reconnect"
                  \/ /\ lastOp'.op \in {"mount", "timer"}
                     /\ connectionStatus = "Disconnected"
            \/ connectionStatus' = "Connected" /\ connectionStatus = "Connecting"
            \/ /\ connectionStatus' = "Error"
               /\ connectionStatus \in {"Connecting", "Connected"}
            \/ connectionStatus' = "Disconnected" /\ lastOp'.op = "close"]_vars

\* ---------------------------------------------------------------- C8
\* C8: a close event with code 1000 sets the status to Disconnected and
\* schedules no reconnect, whatever the value of the retry counter.
C8_NormalClosureNoRetry ==
    [][(lastOp'.op = "close" /\ lastOp'.code = 1000) =>
            /\ connectionStatus' = "Disconnected"
            /\ NoTimerScheduled
            /\ reconnectAttempts' = reconnectAttempts]_vars

\* C8, witness: a normal closure has arrived while the retry counter was
\* above 0 and budget remained, and nothing is scheduled.
C8_Witness ==
    /\ lastOp.op = "close" /\ lastOp.code = 1000
    /\ reconnectAttempts > 0 /\ reconnectAttempts < maxReconnectAttempts
    /\ PendingTimers = 0
    /\ connectionStatus = "Disconnected"

\* ---------------------------------------------------------------- C9
\* C9: an open resets the retry counter to 0 and sets the status to
\* Connected, so that an abnormal closure arriving while the status is
\* still Connected is retried after the initial 1000 ms.
C9_OpenResetsBackoff ==
    [][
        /\ lastOp'.op = "open" =>
            (reconnectAttempts' = 0 /\ connectionStatus' = "Connected")
        /\ (AbnormalCloseStep /\ connectionStatus = "Connected") =>
            (reconnectTimeoutRef' = "pending" /\ timerDelay' = 1000)]_vars

\* ---------------------------------------------------------------- C10
\* C10, as claimed: every call of connect() made while the status is
\* Connected (by the effect, by a timer callback, or by reconnect() after
\* it closed ws.current) changes neither the status nor the socket.
C10_NoOpWhileConnected ==
    [][
        /\ (lastOp'.op \in {"mount", "timer"} /\ connectionStatus = "Connected") =>
            UNCHANGED <<connectionStatus, ws, replaced>>
        /\ (lastOp'.op = "reconnect" /\ connectionStatus = "Connected") =>
            /\ connectionStatus' = connectionStatus
            /\ ws' = CloseSocket(ws)
            /\ replaced' = replaced]_vars

\* C10, amended: connect() is a no-op exactly when the readyState of
\* ws.current is OPEN: then it changes neither the status nor the socket,
\* and schedules no timer; otherwise, whatever the status, it sets the
\* status to Connecting and stores a new socket in ws.current.
C10_NoOpWhileOpen ==
    [][
        /\ lastOp'.op \in {"mount", "timer"} =>
            IF ReadyState(ws) = "OPEN"
            THEN UNCHANGED <<connectionStatus, ws, replaced>>
            ELSE connectionStatus' = "Connecting" /\ ws' = "CONNECTING"
        /\ lastOp'.op = "reconnect" =>
            (connectionStatus' = "Connecting" /\ ws' = "CONNECTING")
        /\ lastOp'.op = "mount" =>
            UNCHANGED <<reconnectAttempts, reconnectTimeoutRef, timerDelay, orphanTimers>>
        /\ TimerStep => PendingTimers' = PendingTimers - 1]_vars

\* C10, witness: a timer callback has called connect() while ws.current
\* was OPEN and the status Connected.
C10_Witness ==
    /\ lastOp.op = "timer"
    /\ ws = "OPEN"
    /\ connectionStatus = "Connected"

\* ---------------------------------------------------------------- C11
\* The step just taken is a call of sendMessage.
SendStep == lastOp'.op = "send"

\* C11, as claimed: sendMessage called while the status is not Connected
\* is a no-op: the message is not handed to any socket, and the status,
\* the last message, the retry counter and the pending timer are
\* unchanged.
C11_SendWhileNotConnected ==
    [][(SendStep /\ connectionStatus # "Connected") =>
        /\ lastOp'.own = "none"
        /\ UNCHANGED <<connectionStatus, lastMessage, reconnectAttempts,
                       reconnectTimeoutRef, timerDelay, orphanTimers>>]_vars

\* ---------------------------------------------------------------- C12
\* C12: the hook retains only the most recently received message: every
\* message event overwrites lastMessage with the event just received, and
\* no other step changes lastMessage, so that lastMessage is always the
\* last message received.
C12_LastMessageOnly ==
    [][
        /\ lastOp'.op = "message" => lastMessage' = lastOp'.msg
        /\ lastOp'.op # "message" => lastMessage' = lastMessage]_vars

\* C12, witness: a "result" message has just been received and is the
\* one retained.
C12_Witness ==
    /\ lastOp.op = "message"
    /\ lastOp.msg = "result"
    /\ lastMessage = "result"

\* ---------------------------------------------------------------- C13
\* C13, as claimed: the status becomes Error only from Connecting or
\* Connected; the error is followed by the handling of an abnormal close
\* (status Disconnected and, while the retry counter is below 5, a
\* reconnect timer), so that outside the error's own task the status is
\* never Error.
C13_ErrorThenRetry ==
    [][
        /\ (lastOp'.op = "error" /\ connectionStatus' = "Error") =>
            connectionStatus \in {"Connecting", "Connected"}
        /\ lastOp.op = "error" =>
            /\ AbnormalCloseStep
            /\ connectionStatus' = "Disconnected"
            /\ reconnectAttempts < maxReconnectAttempts =>
                reconnectTimeoutRef' = "pending"
        /\ (connectionStatus' = "Error") => task' # "none"]_vars

\* C13, the part that holds: an error event is always followed, in the
\* same task, by the close handler with a code other than 1000, which
\* sets Disconnected and schedules a reconnect while the counter is
\* below 5.
C13_ErrorFollowedByClose ==
    [][
        /\ lastOp.op = "error" =>
            /\ AbnormalCloseStep
            /\ connectionStatus' = "Disconnected"
            /\ reconnectAttempts < maxReconnectAttempts =>
                reconnectTimeoutRef' = "pending"
        /\ (connectionStatus' = "Error") => task' # "none"]_vars

\* ---------------------------------------------------------------- C25
\* The step just taken is a handler of a socket ws.current no longer
\* refers to.
ReplacedSocketStep ==
    /\ lastOp'.own = "replaced"
    /\ lastOp'.op \in {"open", "close", "error", "message"}

\* C25, as claimed: an open, close, error or message event of a replaced
\* socket changes neither the status nor the last message and schedules
\* no reconnect, so that the status is Connected whenever the socket
\* ws.current holds is open and no handler is due.
C25_OnlyCurrentSocket ==
    [][
        /\ ReplacedSocketStep =>
            UNCHANGED <<connectionStatus, lastMessage, reconnectTimeoutRef,
                        timerDelay, orphanTimers, reconnectAttempts>>
        /\ (ws' = "OPEN" /\ task' = "none") =>
            connectionStatus' = "Connected"]_vars

\* ---------------------------------------------------------------- C26
\* C26, as claimed: once the effect cleanup has run, in whatever state,
\* no socket is created and no reconnect timer is pending, also after the
\* close event of the socket the cleanup closed arrives with a code other
\* than 1000.
C26_QuietAfterDisposal ==
    [][phase' = "disposed" =>
        /\ PendingTimers' = 0
        /\ ws' # "CONNECTING"
        /\ replaced'["CONNECTING"] <= replaced["CONNECTING"]]_vars

\* ---------------------------------------------------------------- C27
\* C27, as claimed: the retry counter stays within 0..5 in every
\* reachable state.
C27_CounterInRange ==
    reconnectAttempts \in 0..maxReconnectAttempts

\* A step of handleExecuteQuery that executed a (non-empty) question.
ExecuteStep == lastOp'.op = "execute"

\* C24: every executed non-empty question is transmitted on exactly one
\* path: on the socket when the status is Connected, through the HTTP call
\* otherwise; none is sent on neither path.
C24_ExactlyOnePath ==
    [][ExecuteStep =>
        /\ lastOp'.own \in {"current", "http"}
        /\ (lastOp'.own = "current") = (connectionStatus = "Connected")]_vars

\* What the code guarantees instead: a question goes over HTTP exactly when
\* the status is not Connected, and never on both paths; with the status
\* Connected it is transmitted only if ws.current is OPEN.
C24_AtMostOnePath ==
    [][ExecuteStep =>
        /\ (lastOp'.own = "http") = (connectionStatus # "Connected")
        /\ (lastOp'.own = "current") =
               (connectionStatus = "Connected" /\ CanSend(ws))
        /\ (lastOp'.own = "http") = (httpPending' = httpPending + 1)]_vars

\* A question was dropped: the status said Connected, the socket was not
\* OPEN.
C24_Dropped ==
    /\ lastOp.op = "execute"
    /\ lastOp.own = "none"
    /\ query = "dropped"
    /\ isExecuting

\* Nothing can happen any more unless the user acts.
Quiescent == ~ENABLED SystemNext

\* C28: a query that went to the channel does not stay in the executing
\* state for ever: the page is never executing such a query in a state
\* where no socket, timer or HTTP event is left to end the execution.
C28_NeverStuckExecuting ==
    ~(/\ isExecuting
      /\ query \in {"channel", "dropped"}
      /\ phase = "mounted"
      /\ Quiescent)

\* ======================================================= result analysis
\* ResultsVisualizer.analysisResult (src/unnamed/part_001): from the rows
\* of a query result to a chart type, the chart's data and the lists of
\* numeric and categorical columns.
\*
\* ------------------------------------------------------ JavaScript values
\* A value is a record [t, v, d].  The cells of a row are JSON scalars:
\* numbers (non-negative integers here, d = 1), strings and null; a
\* string is either the decimal notation of a non-negative integer
\* ("numstr", v its value) or a text that does not parse as a number
\* ("text", v identifies the text).  `undefined` is what reading an absent
\* key yields.  Quotients are numbers v/d in lowest terms.
Num(n) == [t |-> "number", v |-> n, d |-> 1]
NumStr(n) == [t |-> "numstr", v |-> n, d |-> 1]
Text(i) == [t |-> "text", v |-> i, d |-> 1]
Null == [t |-> "null", v |-> 0, d |-> 1]
Undefined == [t |-> "undefined", v |-> 0, d |-> 1]
NaN == [t |-> "NaN", v |-> 0, d |-> 1]
Infinity == [t |-> "Infinity", v |-> 0, d |-> 1]

\* The string "Infinity".
InfStr == [t |-> "infstr", v |-> 0, d |-> 1]

\* The texts "null" and "undefined", which String() produces.
TextNull == Text(-1)
TextUndefined == Text(-2)

\* Number(val)
Number(val) ==
    CASE val.t = "number" -> val
      [] val.t = "numstr" -> Num(val.v)
      [] val.t = "null" -> Num(0)
      [] val.t \in {"infstr", "Infinity"} -> Infinity
      [] OTHER -> NaN

isNaN(x) == x.t = "NaN"

\* ToBoolean(val), as applied by `!val` and `val || other`
Truthy(val) ==
    CASE val.t = "number" -> val.v # 0
      [] val.t \in {"numstr", "text", "infstr", "Infinity"} -> TRUE
      [] OTHER -> FALSE

\* a || b
Or(a, b) == IF Truthy(a) THEN a ELSE b

\* a + b and a / b on numbers
Plus(a, b) ==
    IF a.t = "Infinity" \/ b.t = "Infinity" THEN Infinity
    ELSE Num(a.v + b.v)

RECURSIVE GCD(_, _)
GCD(a, b) == IF b = 0 THEN a ELSE GCD(b, a % b)

Divide(a, b) ==
    IF a.t = "Infinity" THEN Infinity
    ELSE IF b.v = 0
    THEN IF a.v = 0 THEN NaN ELSE Infinity
    ELSE [t |-> "number", v |-> a.v \div GCD(a.v, b.v),
          d |-> b.v \div GCD(a.v, b.v)]

\* String(val): the property key a value is converted to when it indexes
\* an object.
String(val) ==
    CASE val.t = "number" -> NumStr(val.v)
      [] val.t = "null" -> TextNull
      [] val.t = "undefined" -> TextUndefined
      [] OTHER -> val

\* ----------------------------------------------------------- JS objects
\* An accumulator object is the sequence of its [key, value] properties in
\* the order Object.values and Object.entries enumerate them: keys that
\* are array indices (canonical decimal integers) in ascending numeric
\* order, then the other keys in insertion order.
IsArrayIndex(key) == key.t = "numstr"

Has(obj, key) == \E i \in 1..Len(obj) : obj[i].key = key

\* obj[key]
Get(obj, key) ==
    IF Has(obj, key)
    THEN obj[CHOOSE i \in 1..Len(obj) : obj[i].key = key].value
    ELSE Undefined

Before(key, e) == IsArrayIndex(e.key) /\ e.key.v < key.v

\* obj[key] = value
Set(obj, key, value) ==
    IF Has(obj, key)
    THEN [i \in 1..Len(obj) |->
            IF obj[i].key = key THEN [key |-> key, value |-> value]
            ELSE obj[i]]
    ELSE IF IsArrayIndex(key)
         THEN SelectSeq(obj, LAMBDA e : Before(key, e))
              \o <<[key |-> key, value |-> value]>>
              \o SelectSeq(obj, LAMBDA e : ~Before(key, e))
         ELSE Append(obj, [key |-> key, value |-> value])

ObjectValues(obj) == [i \in 1..Len(obj) |-> obj[i].value]
ObjectEntries(obj) == obj

\* ------------------------------------------------------------------ rows
\* A row is a function from the column names it has to their values.  The
\* keys of every row are enumerated in the order of ColumnNames (the order
\* of the SELECT list).
ColumnNames == <<"dept", "sal", "bonus", "name", "count">>

\* row[col]
Cell(row, col) == IF col \in DOMAIN row THEN row[col] ELSE Undefined

\* Object.keys(row)
ObjectKeys(row) == SelectSeq(ColumnNames, LAMBDA c : c \in DOMAIN row)

\* ------------------------------------------------------- classification
\* data.slice(0, 10): the rows a column's values are sampled from
SampleRows == 10

\* Math.min(20, data.length * 0.8): a column of more than 20 distinct
\* values, or of more than 0.8 distinct values per row, is not
\* categorical.  size <= n * 0.8 is computed on doubles; for integers it
\* holds exactly when 10 * size <= 8 * n (n * 0.8 is never below the
\* exact product, and exceeds it by less than 0.2).
MaxCategories == 20
RatioNum == 8
RatioDen == 10

\* A numeric test that samples every row.
IsNumericAllRows(rows, col) ==
    \A i \in 1..Len(rows) :
        /\ Cell(rows[i], col) # Null
        /\ Cell(rows[i], col) # Undefined
        /\ ~isNaN(Number(Cell(rows[i], col)))

\* sampleValues.every(val => val !== null && val !== undefined &&
\*                           !isNaN(Number(val)))
IsNumeric(rows, col) ==
    \A i \in 1..Min(SampleRows, Len(rows)) :
        /\ Cell(rows[i], col) # Null
        /\ Cell(rows[i], col) # Undefined
        /\ ~isNaN(Number(Cell(rows[i], col)))

\* new Set(data.map(row => row[col]))
uniqueValues(rows, col) == {Cell(rows[i], col) : i \in 1..Len(rows)}

\* A categorical test without the limit of 20 distinct values.
IsCategoricalNoCap(rows, col) ==
    /\ RatioDen * Cardinality(uniqueValues(rows, col)) <= RatioNum * Len(rows)
    /\ Cardinality(uniqueValues(rows, col)) > 1

\* uniqueValues.size <= Math.min(20, data.length * 0.8) &&
\* uniqueValues.size > 1
IsCategorical(rows, col) ==
    /\ Cardinality(uniqueValues(rows, col)) <= MaxCategories
    /\ RatioDen * Cardinality(uniqueValues(rows, col)) <= RatioNum * Len(rows)
    /\ Cardinality(uniqueValues(rows, col)) > 1

\* A column set made of the keys of all rows.
columnsOfAllRows(rows) ==
    SelectSeq(ColumnNames,
              LAMBDA c : \E i \in 1..Len(rows) : c \in DOMAIN rows[i])

\* const firstRow = data[0]; const columns = Object.keys(firstRow);
columns(rows) == ObjectKeys(rows[1])
numericColumns(rows) ==
    SelectSeq(columns(rows), LAMBDA col : IsNumeric(rows, col))
\* A list of categorical columns that also takes the columns of a
\* single value.
categoricalColumnsFromOne(rows) ==
    SelectSeq(columns(rows),
              LAMBDA col : /\ Cardinality(uniqueValues(rows, col)) <= MaxCategories
                           /\ RatioDen * Cardinality(uniqueValues(rows, col))
                                <= RatioNum * Len(rows))

categoricalColumns(rows) ==
    SelectSeq(columns(rows), LAMBDA col : IsCategorical(rows, col))

\* ---------------------------------------------------------- chart data
\* The object literal { name: key, [numericCol]: 0, count: 0 }: a later
\* property of the same name replaces an earlier one.
NewItem(key, numericCol) ==
    [f \in {"name", numericCol, "count"} |->
        IF f = "count" \/ f = numericCol THEN Num(0) ELSE key]

\* One step of the bar branch's reduce:
\*   if (!acc[key]) acc[key] = {...};
\*   acc[key][numericCol] += Number(row[numericCol]) || 0;
\*   acc[key].count += 1;
AddToGroup(acc, row, categoryCol, numericCol) ==
    LET key == Cell(row, categoryCol)
        item0 == IF Has(acc, String(key))
                 THEN Get(acc, String(key))
                 ELSE NewItem(key, numericCol)
        item1 == [item0 EXCEPT ![numericCol] =
                    Plus(@, Or(Number(Cell(row, numericCol)), Num(0)))]
        item2 == [item1 EXCEPT !["count"] = Plus(@, Num(1))]
    IN Set(acc, String(key), item2)

\* data.reduce(..., {}) of the bar branch, rows i..Len(rows) still to add
RECURSIVE aggregated(_, _, _, _, _)
aggregated(rows, i, acc, categoryCol, numericCol) ==
    IF i > Len(rows) THEN acc
    ELSE aggregated(rows, i + 1,
                    AddToGroup(acc, rows[i], categoryCol, numericCol),
                    categoryCol, numericCol)

\* Object.values(aggregated).map(item =>
\*   ({ ...item, [numericCol]: item[numericCol] / item.count }))
barData(rows, categoryCol, numericCol) ==
    LET items == ObjectValues(aggregated(rows, 1, <<>>, categoryCol, numericCol))
    IN [i \in 1..Len(items) |->
          [items[i] EXCEPT ![numericCol] =
              Divide(items[i][numericCol], items[i]["count"])]]

\* Scatter points with the two columns exchanged.
scatterDataSwapped(rows, xCol, yCol) ==
    [i \in 1..Len(rows) |->
        [x |-> Or(Number(Cell(rows[i], yCol)), Num(0)),
         y |-> Or(Number(Cell(rows[i], xCol)), Num(0)),
         id |-> i - 1]]

\* data.map((row, index) => ({ x: Number(row[n0]) || 0,
\*                             y: Number(row[n1]) || 0, id: index }))
scatterData(rows, xCol, yCol) ==
    [i \in 1..Len(rows) |->
        [x |-> Or(Number(Cell(rows[i], xCol)), Num(0)),
         y |-> Or(Number(Cell(rows[i], yCol)), Num(0)),
         id |-> i - 1]]

\* data.reduce(..., {}) of the pie branch:
\*   acc[key] = (acc[key] || 0) + 1
RECURSIVE counts(_, _, _, _)
counts(rows, i, acc, categoryCol) ==
    IF i > Len(rows) THEN acc
    ELSE LET key == String(Cell(rows[i], categoryCol))
         IN counts(rows, i + 1,
                   Set(acc, key, Plus(Or(Get(acc, key), Num(0)), Num(1))),
                   categoryCol)

\* Object.entries(counts).map(([name, value]) => ({ name, value }))
pieData(rows, categoryCol) ==
    LET entries == ObjectEntries(counts(rows, 1, <<>>, categoryCol))
    IN [i \in 1..Len(entries) |->
          [name |-> entries[i].key, value |-> entries[i].value]]

\* The template string `Row ${index + 1}`
RowLabel(n) == [t |-> "rowlabel", v |-> n, d |-> 1]

\* data.map((row, index) => ({ index, value: Number(row[n0]) || 0,
\*                             name: row[columns[0]] || `Row ${index + 1}` }))
lineData(rows, numericCol, firstCol) ==
    [i \in 1..Len(rows) |->
        [index |-> i - 1,
         value |-> Or(Number(Cell(rows[i], numericCol)), Num(0)),
         name |-> Or(Cell(rows[i], firstCol), RowLabel(i))]]

\* ------------------------------------------------------------ decision
\* row counts compared in the pie and in the line branch
PieMaxRows == 20
LineMinRows == 5

\* A decision that tests the scatter rule before the bar rule.
chartTypeScatterFirst(nNumeric, nCategorical, nRows) ==
    IF nNumeric >= 2 THEN "scatter"
    ELSE IF nNumeric >= 1 /\ nCategorical >= 1 THEN "bar"
    ELSE IF nCategorical = 1 /\ nRows <= PieMaxRows THEN "pie"
    ELSE IF nNumeric >= 1 /\ nRows > LineMinRows THEN "line"
    ELSE "table"

\* The if / else-if chain over numericColumns.length,
\* categoricalColumns.length and data.length; 'table' is the initial
\* value of chartType, kept when no branch is taken.
chartType(nNumeric, nCategorical, nRows) ==
    IF nNumeric >= 1 /\ nCategorical >= 1 THEN "bar"
    ELSE IF nNumeric >= 2 THEN "scatter"
    ELSE IF nCategorical = 1 /\ nRows <= PieMaxRows THEN "pie"
    ELSE IF nNumeric >= 1 /\ nRows > LineMinRows THEN "line"
    ELSE "table"

\* !data || data.length === 0
IsEmpty(d) == ~d.given \/ Len(d.rows) = 0

\* An early return that reports the table fallback.
emptyResultAsTable ==
    [chartType |-> "table", chartData |-> <<>>,
     numericColumns |-> <<>>, categoricalColumns |-> <<>>]

\* The early return for no rows.
emptyResult ==
    [chartType |-> "none", chartData |-> <<>>,
     numericColumns |-> <<>>, categoricalColumns |-> <<>>]

\* The useMemo callback does not return: a TypeError propagates out of it
\* (nothing in the component catches it).
TypeError ==
    [chartType |-> "TypeError", chartData |-> <<>>,
     numericColumns |-> <<>>, categoricalColumns |-> <<>>]

\* Object.keys(null) throws, and so does row[col] for a row that is null:
\* the first when data[0] is null, the second when a filter callback
\* runs (columns is not empty) and maps a null row (the categorical
\* filter maps all rows).
Throws(rows) ==
    \/ rows[1] = Null
    \/ /\ Len(columns(rows)) > 0
       /\ \E i \in 1..Len(rows) : rows[i] = Null

\* The value of the useMemo: analysisResult for the prop d.
analysisResult(d) ==
    IF IsEmpty(d)
    THEN emptyResult
    ELSE IF Throws(d.rows) THEN TypeError
    ELSE LET rows == d.rows
             num == numericColumns(rows)
             cat == categoricalColumns(rows)
             kind == chartType(Len(num), Len(cat), Len(rows))
         IN [chartType |-> kind,
             chartData |->
                CASE kind = "bar" -> barData(rows, cat[1], num[1])
                  [] kind = "scatter" -> scatterData(rows, num[1], num[2])
                  [] kind = "pie" -> pieData(rows, cat[1])
                  [] kind = "line" -> lineData(rows, num[1], columns(rows)[1])
                  [] OTHER -> rows,
             numericColumns |-> num,
             categoricalColumns |-> cat]

\* -------------------------------------------------------------- inputs
\* The row with the cells a and b in its first two columns; a cell that
\* is Undefined stands for a key the row does not have.
RowOf(a, b) ==
    [c \in {n \in {ColumnNames[1], ColumnNames[2]} :
                (IF n = ColumnNames[1] THEN a ELSE b) # Undefined} |->
        IF c = ColumnNames[1] THEN a ELSE b]

\* Result sets of at most MaxRows rows and two columns, every combination
\* of a few cells: two texts, two numbers listed in descending order, 0,
\* and absent keys.
DeptCells == {Text(1), Text(2), Num(2), Num(1), Undefined}
SalCells == {Num(0), Num(3), Text(3), Undefined}
SmallRows == {RowOf(a, b) : a \in DeptCells, b \in SalCells}
SmallResultSets == UNION {[1..n -> SmallRows] : n \in 0..MaxRows}

\* Longer result sets, one column pattern per column.  The value of a
\* column in row i (from 1) under each pattern:
Pattern(p, i) ==
    CASE p = "absent" -> Undefined
      [] p = "late" -> IF i = 1 THEN Undefined ELSE Num(i)
      [] p = "serial" -> Num(i - 1)
      [] p = "const" -> Num(7)
      [] p = "down3" -> Num(3 - ((i - 1) % 3))
      [] p = "digits" -> NumStr((i - 1) % 2)
      [] p = "text3" -> Text((i - 1) % 3)
      [] p = "textall" -> Text(i)
      [] p = "nullTail" -> IF i <= SampleRows THEN Num(i) ELSE Null
      [] p = "gaps" -> IF i % 3 = 0 THEN Null ELSE Num(3 - (i % 3))
      [] p = "mod21" -> Num((i - 1) % (MaxCategories + 1))
      [] p = "inf" -> IF i = 2 THEN InfStr ELSE Num(i)

Patterns ==
    {"absent", "late", "serial", "const", "down3", "digits", "text3",
     "textall", "nullTail", "gaps", "mod21"}
LastPatterns == {"absent", "serial", "text3"}

\* Fewest rows for which MaxCategories + 1 distinct values are within the
\* ratio of distinct values per row.
CapRows == (RatioDen * (MaxCategories + 1)) \div RatioNum + 1

\* Row counts on both sides of every row count the code compares with.
Sizes ==
    {LineMinRows, LineMinRows + 1, SampleRows, SampleRows + 1,
     PieMaxRows, PieMaxRows + 1, CapRows}

\* Row i of the result set whose columns follow the patterns p1, p2, p3.
GeneratedRow(p1, p2, p3, i) ==
    LET cell(c) == IF c = ColumnNames[1] THEN Pattern(p1, i)
                   ELSE IF c = ColumnNames[2] THEN Pattern(p2, i)
                   ELSE Pattern(p3, i)
    IN [c \in {n \in {ColumnNames[1], ColumnNames[2], ColumnNames[3]} :
                    cell(n) # Undefined} |-> cell(c)]

GeneratedResultSets ==
    {[i \in 1..n |-> GeneratedRow(p1, p2, p3, i)] :
        n \in Sizes, p1 \in Patterns, p2 \in Patterns, p3 \in LastPatterns}

\* The props ResultsVisualizer is rendered with.
ResultSets ==
    {NoData} \cup
    {[given |-> TRUE, rows |-> r] :
        r \in SmallResultSets \cup GeneratedResultSets}

\* ------------------------------------------------ analysis as a machine
InitAnalysis ==
    /\ InitChannel
    /\ data \in ResultSets
    /\ analysis = Pending
    /\ InitQuery

\* The component renders: useMemo computes analysisResult from data.
Analyze ==
    /\ analysis = Pending
    /\ analysis' = analysisResult(data)
    /\ UNCHANGED <<data, channelVars, queryVars>>

NextAnalysis == Analyze

SpecAnalysis == InitAnalysis /\ [][NextAnalysis]_vars

\* Lists of one or two elements that are rows or null: result sets of an
\* unexpected shape.
MalformedResultSets ==
    UNION {[1..n -> SmallRows \cup {Null}] : n \in 1..2}

\* Result sets whose first column holds the string "Infinity" in its
\* second row.
InfinityResultSets ==
    {[i \in 1..n |-> GeneratedRow("inf", p2, "absent", i)] :
        n \in Sizes, p2 \in Patterns}

\* Three rows of a text column dept and a number column called "name" or
\* "count", the names of the bar accumulator's own fields.
CollidingRows(numericCol) ==
    {[c \in {"dept", numericCol} |-> IF c = "dept" THEN a ELSE b] :
        a \in {Text(1), Text(2)}, b \in {Num(0), Num(3), Num(4)}}

CollidingResultSets ==
    [1..3 -> CollidingRows("name")] \cup [1..3 -> CollidingRows("count")]

\* The analysis of any input, well-formed or not.
InitAnyInput ==
    /\ InitChannel
    /\ data \in ResultSets \cup
                {[given |-> TRUE, rows |-> r] :
                    r \in MalformedResultSets \cup InfinityResultSets
                          \cup CollidingResultSets}
    /\ analysis = Pending
    /\ InitQuery

SpecAnyInput == InitAnyInput /\ [][NextAnalysis]_vars

Analyzed == analysis # Pending

\* ---------------------------------------------------------------- C14
\* Numbers of numeric and of categorical columns of the analysed data.
NumericCount == Len(analysis.numericColumns)
CategoricalCount == Len(analysis.categoricalColumns)
RowCount == Len(data.rows)
HasRows == Analyzed /\ ~IsEmpty(data)

\* C14, as claimed: for a non-empty result set the chart type is the
\* first rule that matches: bar with a numeric and a categorical column,
\* else scatter with two numeric columns, else pie with exactly one
\* categorical column and at most 20 rows, else line with a numeric
\* column and more than 5 rows, else none.
C14_OrderedPolicy ==
    HasRows =>
        analysis.chartType =
            IF NumericCount >= 1 /\ CategoricalCount >= 1 THEN "bar"
            ELSE IF NumericCount >= 2 THEN "scatter"
            ELSE IF CategoricalCount = 1 /\ RowCount <= 20 THEN "pie"
            ELSE IF NumericCount >= 1 /\ RowCount > 5 THEN "line"
            ELSE "none"

\* C14, amended: the same ordered rules, but when no rule matches the
\* chart type is table and the chart data are the rows themselves; none
\* is returned for no rows only.
C14_OrderedPolicyTable ==
    HasRows =>
        /\ analysis.chartType =
                IF NumericCount >= 1 /\ CategoricalCount >= 1 THEN "bar"
                ELSE IF NumericCount >= 2 THEN "scatter"
                ELSE IF CategoricalCount = 1 /\ RowCount <= 20 THEN "pie"
                ELSE IF NumericCount >= 1 /\ RowCount > 5 THEN "line"
                ELSE "table"
        /\ analysis.chartType = "table" => analysis.chartData = data.rows
        /\ analysis.chartType # "none"

\* C14, witness: a result set with two numeric columns and a categorical
\* one, which meets the bar and the scatter rule, analysed as bar.
C14_Witness ==
    /\ HasRows
    /\ NumericCount >= 2
    /\ CategoricalCount >= 1
    /\ analysis.chartType = "bar"

\* ---------------------------------------------------------------- C20
\* C20: for no rows, and for a prop that is not given, the analysis is
\* the chart type none with empty chart data and empty lists of numeric
\* and categorical columns.
C20_EmptyIsNone ==
    (Analyzed /\ (~data.given \/ Len(data.rows) = 0)) =>
        /\ analysis.chartType = "none"
        /\ analysis.chartData = <<>>
        /\ analysis.numericColumns = <<>>
        /\ analysis.categoricalColumns = <<>>

\* C20, witness: a result set that is given and has no rows has been
\* analysed.
C20_Witness ==
    /\ Analyzed
    /\ data.given
    /\ Len(data.rows) = 0
    /\ analysis.chartType = "none"

\* ------------------------------------------------- what the claims say
\* The number a cell counts as in a sum or as a coordinate: its numeric
\* value, 0 when it is absent or not a number.
Coerced(val) == IF val.t \in {"number", "numstr"} THEN val.v ELSE 0

\* The distinct values of a column in the order of their first rows.
RECURSIVE FirstSeenFrom(_, _, _, _)
FirstSeenFrom(rows, col, i, seen) ==
    IF i > Len(rows) THEN seen
    ELSE FirstSeenFrom(rows, col, i + 1,
            IF \E k \in 1..Len(seen) : seen[k] = Cell(rows[i], col)
            THEN seen
            ELSE Append(seen, Cell(rows[i], col)))

FirstSeen(rows, col) == FirstSeenFrom(rows, col, 1, <<>>)

\* The rows of a group, and the sum of a column over them.
GroupRows(rows, col, val) == {i \in 1..Len(rows) : Cell(rows[i], col) = val}

RECURSIVE SumOver(_, _, _)
SumOver(rows, col, idx) ==
    IF idx = {} THEN 0
    ELSE LET i == CHOOSE j \in idx : TRUE
         IN Coerced(Cell(rows[i], col)) + SumOver(rows, col, idx \ {i})

\* The point is the group of val: its name is val and its value is the
\* mean of the column numericCol over the rows of the group.
IsGroupMean(point, rows, categoryCol, numericCol, val) ==
    /\ point["name"] = val
    /\ point[numericCol].t = "number"
    /\ point[numericCol].v * Cardinality(GroupRows(rows, categoryCol, val))
         = point[numericCol].d
            * SumOver(rows, numericCol, GroupRows(rows, categoryCol, val))

IsBar == Analyzed /\ analysis.chartType = "bar"
IsPie == Analyzed /\ analysis.chartType = "pie"
IsScatter == Analyzed /\ analysis.chartType = "scatter"
IsLine == Analyzed /\ analysis.chartType = "line"

\* ---------------------------------------------------------------- C15
\* C15, as claimed: the bar data have one point per distinct value of the
\* first categorical column, in the order in which the values are first
\* seen, each with the mean of the first numeric column over the rows of
\* its group.
C15_BarSeries ==
    IsBar =>
        LET categoryCol == analysis.categoricalColumns[1]
            numericCol == analysis.numericColumns[1]
            groups == FirstSeen(data.rows, categoryCol)
        IN /\ Len(analysis.chartData) = Len(groups)
           /\ \A k \in 1..Len(groups) :
                IsGroupMean(analysis.chartData[k], data.rows,
                            categoryCol, numericCol, groups[k])

\* C15, the part that holds: every distinct value of the first
\* categorical column has exactly one point, which carries the mean of its
\* group, and there are no other points.
C15_BarGroups ==
    IsBar =>
        LET categoryCol == analysis.categoricalColumns[1]
            numericCol == analysis.numericColumns[1]
            groups == FirstSeen(data.rows, categoryCol)
        IN /\ Len(analysis.chartData) = Len(groups)
           /\ \A g \in 1..Len(groups) :
                \E k \in 1..Len(groups) :
                    IsGroupMean(analysis.chartData[k], data.rows,
                                categoryCol, numericCol, groups[g])

\* ---------------------------------------------------------------- C17
\* C17, as claimed: the pie data have one (name, count) entry per
\* distinct value of the categorical column, in the order in which the
\* values are first seen, each count being the number of rows of that
\* value.
C17_PieSeries ==
    IsPie =>
        LET categoryCol == analysis.categoricalColumns[1]
            groups == FirstSeen(data.rows, categoryCol)
        IN /\ Len(analysis.chartData) = Len(groups)
           /\ \A k \in 1..Len(groups) :
                /\ analysis.chartData[k].name = String(groups[k])
                /\ analysis.chartData[k].value =
                      Num(Cardinality(GroupRows(data.rows, categoryCol,
                                                groups[k])))

\* C17, the part that holds: every distinct value has exactly one entry,
\* with the number of its rows, so that the counts add up to the number
\* of rows.
C17_PieCounts ==
    IsPie =>
        LET categoryCol == analysis.categoricalColumns[1]
            groups == FirstSeen(data.rows, categoryCol)
        IN /\ Len(analysis.chartData) = Len(groups)
           /\ \A g \in 1..Len(groups) :
                \E k \in 1..Len(groups) :
                    /\ analysis.chartData[k].name = String(groups[g])
                    /\ analysis.chartData[k].value =
                          Num(Cardinality(GroupRows(data.rows, categoryCol,
                                                    groups[g])))

\* ---------------------------------------------------------------- C16
\* The rows without the keys the first row does not have.
FirstRowKeysOnly(rows) ==
    [i \in 1..Len(rows) |->
        [c \in DOMAIN rows[i] \cap DOMAIN rows[1] |-> rows[i][c]]]

C18_ScatterSeries ==
    /\ IsScatter =>
        /\ Len(analysis.chartData) = Len(data.rows)
        /\ \A i \in 1..Len(data.rows) :
            /\ analysis.chartData[i].x =
                  Num(Coerced(Cell(data.rows[i], analysis.numericColumns[1])))
            /\ analysis.chartData[i].y =
                  Num(Coerced(Cell(data.rows[i], analysis.numericColumns[2])))
            /\ analysis.chartData[i].id = i - 1
    /\ (HasRows /\ NumericCount >= 2 /\ CategoricalCount = 0) => IsScatter

\* C18, witness: scatter data in which a cell that is not a number (a
\* null after the sampled rows) gave the coordinate 0.
C18_Witness ==
    /\ IsScatter
    /\ \E i \in 1..Len(data.rows) :
          /\ Cell(data.rows[i], analysis.numericColumns[2]) = Null
          /\ analysis.chartData[i].y = Num(0)
          /\ analysis.chartData[i].x # Num(0)

\* ---------------------------------------------------------------- C19
\* The first column of the analysed data.
FirstColumn == ObjectKeys(data.rows[1])[1]

\* C19, as claimed: the line data have one point per row in the order of
\* the rows, with the row's position as index, the first numeric column
\* (0 if absent or not a number) as value, and as name the value of the
\* first column, or Row n only when the row has no value in that column.
C19_LineSeries ==
    IsLine =>
        /\ Len(analysis.chartData) = Len(data.rows)
        /\ \A i \in 1..Len(data.rows) :
            /\ analysis.chartData[i].index = i - 1
            /\ analysis.chartData[i].value =
                  Num(Coerced(Cell(data.rows[i], analysis.numericColumns[1])))
            /\ analysis.chartData[i].name =
                  IF Cell(data.rows[i], FirstColumn) \in {Undefined, Null}
                  THEN RowLabel(i)
                  ELSE Cell(data.rows[i], FirstColumn)

\* C19, the part that holds: one point per row in the order of the rows,
\* with index and value as claimed; the name is Row n also when the value
\* of the first column is the number 0.
C19_LinePoints ==
    IsLine =>
        /\ Len(analysis.chartData) = Len(data.rows)
        /\ \A i \in 1..Len(data.rows) :
            /\ analysis.chartData[i].index = i - 1
            /\ analysis.chartData[i].value =
                  Num(Coerced(Cell(data.rows[i], analysis.numericColumns[1])))
            /\ analysis.chartData[i].name =
                  IF Cell(data.rows[i], FirstColumn)
                        \in {Undefined, Null, Num(0)}
                  THEN RowLabel(i)
                  ELSE Cell(data.rows[i], FirstColumn)

\* ---------------------------------------------------------------- C21
\* Every element of the list is a row.
WellFormed(d) == \A i \in 1..Len(d.rows) : d.rows[i] # Null

\* C21, as claimed: the analysis never raises, and an input of an
\* unexpected shape is analysed as the chart type none.
C21_NeverRaises ==
    Analyzed =>
        /\ analysis.chartType # "TypeError"
        /\ ~WellFormed(data) => analysis.chartType = "none"

\* C21, the part that holds: on lists of rows, whatever keys the rows
\* lack and whatever their cells hold, the analysis returns a result.
C21_RowsNeverRaise ==
    (Analyzed /\ WellFormed(data)) => analysis.chartType # "TypeError"

\* ---------------------------------------------------------------- C22
\* The analysis returned a result for at least one row.
Classified == Analyzed /\ ~IsEmpty(data) /\ analysis.chartType # "TypeError"

\* The rows a column is sampled from.
Sampled == 1..Min(10, Len(data.rows))

InList(c, list) == \E k \in 1..Len(list) : list[k] = c

\* C22, as claimed: a column of the first row is numeric exactly when
\* each of its values in the first 10 rows is present, not null, and
\* coerces to a finite number; later rows do not count.
C22_NumericFinite ==
    Classified =>
        \A c \in DOMAIN data.rows[1] :
            InList(c, analysis.numericColumns) <=>
                \A i \in Sampled :
                    Cell(data.rows[i], c).t \in {"number", "numstr"}

\* C22, amended: a column of the first row is numeric exactly when each
\* of its values in the first 10 rows is present, not null, and coerces
\* to a number other than NaN, the infinite ones included (the string
\* "Infinity"); later rows do not count.
C22_NumericNotNaN ==
    Classified =>
        \A c \in DOMAIN data.rows[1] :
            InList(c, analysis.numericColumns) <=>
                \A i \in Sampled :
                    Cell(data.rows[i], c).t \in {"number", "numstr", "infstr"}

\* C22, witness: a column is numeric although it holds a null after the
\* tenth row, and another is numeric although it holds "Infinity".
C22_Witness ==
    /\ Classified
    /\ Len(data.rows) > 10
    /\ \E c \in DOMAIN data.rows[1] :
          /\ InList(c, analysis.numericColumns)
          /\ \E i \in 11..Len(data.rows) : Cell(data.rows[i], c) = Null
    /\ \E c \in DOMAIN data.rows[1] :
          /\ InList(c, analysis.numericColumns)
          /\ \E i \in Sampled : Cell(data.rows[i], c) = InfStr

\* ---------------------------------------------------------------- C23
\* The number of distinct values of a column over all rows, an absent key
\* counting as the value undefined.
Distinct(c) ==
    Cardinality({Cell(data.rows[i], c) : i \in 1..Len(data.rows)})

\* C23: a column of the first row is categorical exactly when the number
\* d of its distinct values over all rows, an absent key counting as one
\* more value, satisfies d > 1, d <= 20 and 5 * d <= 4 * rows.
C23_CategoricalBounds ==
    HasRows =>
        \A c \in DOMAIN data.rows[1] :
            InList(c, analysis.categoricalColumns) <=>
                /\ Distinct(c) > 1
                /\ Distinct(c) <= 20
                /\ 5 * Distinct(c) <= 4 * Len(data.rows)

\* C23, witness: 27 rows with a column of 21 distinct values, which is
\* within 0.8 values per row and not categorical, next to a categorical
\* column.
C23_Witness ==
    /\ HasRows
    /\ CategoricalCount >= 1
    /\ \E c \in DOMAIN data.rows[1] :
          /\ Distinct(c) = 21
          /\ 5 * Distinct(c) <= 4 * Len(data.rows)
          /\ ~InList(c, analysis.categoricalColumns)

\* C23, second witness: a column is categorical because an absent key
\* counts as a value (it has one other value).
C23_WitnessAbsentKey ==
    /\ HasRows
    /\ \E c \in DOMAIN data.rows[1] :
          /\ InList(c, analysis.categoricalColumns)
          /\ Distinct(c) = 2
          /\ \E i \in 1..Len(data.rows) : c \notin DOMAIN data.rows[i]

\* ---------------------------------------------------------------- C30
\* C30, as claimed: with 1 or 2 rows no column is categorical, and the
\* chart type is scatter with at least two numeric columns and none
\* otherwise.
C30_FewRowsNone ==
    (HasRows /\ RowCount <= 2) =>
        /\ CategoricalCount = 0
        /\ analysis.chartType =
              IF NumericCount >= 2 THEN "scatter" ELSE "none"

\* C30, amended: with 1 or 2 rows no column is categorical, and the
\* chart type is scatter with at least two numeric columns and table
\* otherwise; bar, pie and line need at least 3 rows.
C30_FewRowsTable ==
    /\ (HasRows /\ RowCount <= 2) =>
        /\ CategoricalCount = 0
        /\ analysis.chartType =
              IF NumericCount >= 2 THEN "scatter" ELSE "table"
    /\ (IsBar \/ IsPie \/ IsLine) => RowCount >= 3

\* C30, witness: two rows of a single column with two distinct numbers
\* (2 > 0.8 * 2), analysed as table.
C30_Witness ==
    /\ HasRows
    /\ RowCount = 2
    /\ NumericCount = 1
    /\ \E c \in DOMAIN data.rows[1] : Distinct(c) = 2
    /\ analysis.chartType = "table"

\* ---------------------------------------------------------------- C29
\* The bar data were computed with a first numeric column called like a
\* field of the accumulator.
IsCollidingBar == IsBar /\ analysis.numericColumns[1] \in {"count", "name"}

\* C29, as claimed: also when the first numeric column is called count
\* or name, every group has a point whose name is the group's key and
\* whose value is the mean of that column over the group.
C29_MeanWhateverTheName ==
    IsCollidingBar =>
        LET categoryCol == analysis.categoricalColumns[1]
            numericCol == analysis.numericColumns[1]
            groups == FirstSeen(data.rows, categoryCol)
        IN \A g \in 1..Len(groups) :
              \E k \in 1..Len(analysis.chartData) :
                  IsGroupMean(analysis.chartData[k], data.rows,
                              categoryCol, numericCol, groups[g])

\* C29, what the code computes instead: with a column called count every
\* point carries the value 1 (the sum plus the number of rows, divided by
\* itself); with a column called name the point's name is the mean, and
\* the group's key is lost.  (Stated for a categorical column other than
\* the numeric one, whose keys are texts and keep their order.)
C29_Collision ==
    (IsCollidingBar
        /\ analysis.categoricalColumns[1] # analysis.numericColumns[1]) =>
        LET categoryCol == analysis.categoricalColumns[1]
            numericCol == analysis.numericColumns[1]
            groups == FirstSeen(data.rows, categoryCol)
        IN /\ Len(analysis.chartData) = Len(groups)
           /\ \A k \in 1..Len(groups) :
                /\ DOMAIN analysis.chartData[k] = {"name", "count"}
                /\ numericCol = "count" =>
                      /\ analysis.chartData[k]["count"] = Num(1)
                      /\ analysis.chartData[k]["name"] = groups[k]
                /\ numericCol = "name" =>
                      /\ analysis.chartData[k]["name"].v
                            * Cardinality(GroupRows(data.rows, categoryCol,
                                                    groups[k]))
                          = analysis.chartData[k]["name"].d
                            * SumOver(data.rows, numericCol,
                                      GroupRows(data.rows, categoryCol,
                                                groups[k]))
                      /\ analysis.chartData[k]["count"] =
                            Num(Cardinality(GroupRows(data.rows, categoryCol,
                                                      groups[k])))

====
